---- MODULE Spec2Model ----
(***************************************************************************)
(* any2pg: the migration workflow (src/src/agents/workflow.py), the        *)
(* statement classifier and verifier (src/src/modules/postgres_verifier.py)*)
(* and the batch driver's initial state (src/src/main.py).                 *)
(*                                                                         *)
(* A SQL text is modelled by what sqlglot.parse returns for it: a sequence *)
(* of items, one per ';'-separated chunk.  An item is a statement kind, or *)
(* NONE (an empty chunk, for which sqlglot.parse yields None), or BAD (a   *)
(* chunk that makes sqlglot.parse raise ParseError).  The empty sequence   *)
(* is the empty or all-blank text.  A message is a sequence of string      *)
(* parts (joined by " | " in the code); the empty sequence stands for      *)
(* Python's None and for the empty string, which the code only ever tests  *)
(* for truthiness.                                                         *)
(***************************************************************************)
EXTENDS Integers, Sequences, FiniteSets, TLC

VARIABLES
    \* configuration (config.yaml, fixed during a run)
    max_retries, allow_dangerous, allow_procedures,
    \* the installed sqlglot: what the `this` of a Command node is
    command_this,
    \* AgentState (workflow.py:19-29) and the graph position
    node, status, source_sql, target_sql, error_msg, retry_count,
    rag_context, skipped_statements, executed_statements,
    \* what the context builder returns for this asset's source
    ctx_doc,
    \* history of the run: calls made so far
    convCalls, reviewCalls, reviewPasses, verifyCalls, ragCalls,
    transpileFailed, raised,
    \* the most recent review call (the text it was given, the response, the
    \* rewrites and verifications made before it) and the most recent rewrite
    \* call (the text extracted from the response, the review and
    \* verification calls made before it)
    lastReview, lastRewrite,
    \* the target database and the most recent verifier call
    dbCommitted, dbBefore, lastCall, lastScript, lastResult, connLog,
    \* what the database did during that call
    lastEnv,
    \* run_migration: the pending assets (their source texts), the position
    \* of the loop, its two counters, and how each finished asset ended
    pending, cursor, done, failed, outcomes,
    \* RAGContextBuilder: the script it is given (as parsed), the rows of
    \* schema_objects, the result of _extract_references and the results of
    \* the build_context calls made so far
    query, store, refs, ctxOut,
    \* direct calls on whole scripts: the script given to the context builder
    \* (as sqlglot.parse sees it) and the schema names _extract_references
    \* returns beside refs
    script, schema_refs,
    \* direct calls of the classifier: the categories returned so far for
    \* the statements of script
    classified,
    \* two workflows interleaved: which of the two the variables of a run
    \* currently hold, and the state of the other
    active, parked,
    \* the project store as run_migration uses it: project.target_dir, the
    \* tables source_assets, rendered_outputs and migration_logs, the rows
    \* of the pending assets, and the number of the port run
    target_dir, source_assets, rendered_outputs, migration_logs,
    pending_assets, run

cfgVars == <<max_retries, allow_dangerous, allow_procedures, command_this>>
agentVars == <<status, source_sql, target_sql, error_msg, retry_count,
               rag_context, skipped_statements, executed_statements, ctx_doc>>
histVars == <<convCalls, reviewCalls, reviewPasses, verifyCalls, ragCalls,
              transpileFailed, raised, lastReview, lastRewrite>>
dbVars == <<dbCommitted, dbBefore, lastCall, lastScript, lastResult, connLog,
           lastEnv>>
batchVars == <<pending, cursor, done, failed, outcomes>>
ctxVars == <<query, store, refs, ctxOut>>
unitVars == <<script, schema_refs, classified>>
parVars == <<active, parked>>
portVars == <<target_dir, source_assets, rendered_outputs, migration_logs,
              pending_assets, run>>
vars == <<cfgVars, node, agentVars, histVars, dbVars, batchVars, ctxVars,
          unitVars, parVars, portVars>>

----------------------------------------------------------------------------
(* Bounds *)

\* longest script, in ';'-separated chunks
MaxStmts == 3
\* largest project.max_retries explored
MaxRetriesBound == 2
\* longest list of pending assets
MaxAssets == 2
\* most rows in the metadata store
MaxRows == 2
\* most scopes in a query
MaxScopes == 3

----------------------------------------------------------------------------
(* SQL texts *)

NONE == "<empty>"
BAD == "<unparseable>"

\* statement kinds that occur in scripts
StmtKinds == {"SELECT 1", "INSERT INTO t VALUES (1)", "CALL proc()", "COMMIT"}

ScriptItems == StmtKinds \cup {NONE, BAD}

Scripts == UNION {[1..n -> ScriptItems] : n \in 0..MaxStmts}

\* further statements, given to the classifier alone
OtherStmts ==
    {"CREATE TABLE demo (id INT)", "ALTER TABLE t ADD COLUMN c INT",
     "DROP TABLE foo", "UPDATE t SET a = 1", "DELETE FROM t",
     "MERGE INTO t USING s ON t.id = s.id WHEN MATCHED THEN DELETE",
     "TRUNCATE TABLE t", "VACUUM t", "SET x = 1", "SELECT * FROM demo"}

\* stmt.sql(dialect="postgres"): the statement in the generator's form
\* ("select 1" is a statement as the rewrite service may write it)
Serialize(s) == IF s = "select 1" THEN "SELECT 1" ELSE s

\* first keyword of stmt.sql(dialect="postgres").strip().upper()
LeadingKeyword(s) ==
    LET t == Serialize(s)
    IN CASE t \in {"SELECT 1", "SELECT * FROM demo"} -> "SELECT"
         [] t = "INSERT INTO t VALUES (1)" -> "INSERT"
         [] t = "CALL proc()" -> "CALL"
         [] t = "COMMIT" -> "COMMIT"
         [] t = "CREATE TABLE demo (id INT)" -> "CREATE"
         [] t = "ALTER TABLE t ADD COLUMN c INT" -> "ALTER"
         [] t = "DROP TABLE foo" -> "DROP"
         [] t = "UPDATE t SET a = 1" -> "UPDATE"
         [] t = "DELETE FROM t" -> "DELETE"
         [] t = "MERGE INTO t USING s ON t.id = s.id WHEN MATCHED THEN DELETE"
              -> "MERGE"
         [] t = "TRUNCATE TABLE t" -> "TRUNCATE"
         [] t = "VACUUM t" -> "VACUUM"
         [] t = "SET x = 1" -> "SET"
         [] OTHER -> ""

\* the expression class sqlglot's postgres parser builds for a statement:
\* CALL and VACUUM have no parser of their own and become Command nodes
NodeType(s) ==
    LET k == LeadingKeyword(s)
    IN CASE k = "SELECT" -> "Select"
         [] k = "INSERT" -> "Insert"
         [] k \in {"CALL", "VACUUM"} -> "Command"
         [] k = "COMMIT" -> "Commit"
         [] k = "CREATE" -> "Create"
         [] k = "ALTER" -> "Alter"
         [] k = "DROP" -> "Drop"
         [] k = "UPDATE" -> "Update"
         [] k = "DELETE" -> "Delete"
         [] k = "MERGE" -> "Merge"
         [] k = "TRUNCATE" -> "TruncateTable"
         [] k = "SET" -> "Set"
         [] OTHER -> "Other"

\* the keyword a Command node keeps in `this`
CommandToken(s) == IF NodeType(s) = "Command" THEN LeadingKeyword(s) ELSE ""

\* effect of a statement on the target database when it executes
Writes(s) == s \in {"INSERT INTO t VALUES (1)", "CALL proc()"}
EndsTransaction(s) == s = "COMMIT"

----------------------------------------------------------------------------
(* VerifierAgent._classify_statement *)

DangerousNodes == {"Create", "Alter", "Drop", "Insert", "Update", "Delete",
                   "Merge", "Command"}
ProcedureNodes == {"Call", "Procedure"}
ProcedureTokens == {"CALL", "EXEC", "EXECUTE", "DO"}
DangerousPrefixes == {"INSERT", "UPDATE", "DELETE", "TRUNCATE", "DROP",
                      "ALTER", "CREATE"}

\* what `this` of a Command node is: the keyword as a Python str, or an
\* expression that has a sql() method
CommandThis == {"str", "Expression"}

\* outcome of a classification that raises instead of returning
RAISES == "<AttributeError>"

\* Line 226 reads the keyword of a Command node as stmt.this.sql(); on a
\* str that raises AttributeError.
ClassifyStatement(s) ==
    IF NodeType(s) \in ProcedureNodes THEN "procedure"
    ELSE IF NodeType(s) \in DangerousNodes THEN
        IF NodeType(s) = "Command" THEN
            IF command_this = "str" THEN RAISES
            ELSE IF CommandToken(s) \in ProcedureTokens THEN "procedure"
            ELSE "dangerous"
        ELSE "dangerous"
    ELSE IF LeadingKeyword(s) \in ProcedureTokens THEN "procedure"
    ELSE IF LeadingKeyword(s) \in DangerousPrefixes THEN "dangerous"
    ELSE "safe"

----------------------------------------------------------------------------
(* VerifierAgent._split_statements and _prepare_statements *)

IsStmt(item) == item # NONE

ParseFails(sql) == \E i \in 1..Len(sql) : sql[i] = BAD

\* [stmt.sql(dialect="postgres") for stmt in parsed if stmt]
SplitStatements(sql) ==
    LET stmts == SelectSeq(sql, IsStmt)
    IN [i \in 1..Len(stmts) |-> Serialize(stmts[i])]

\* whether statement raw (classified as cls) is filtered out by policy
Filtered(cls, ad, ap) ==
    \/ cls = "procedure" /\ ~ap
    \/ cls = "dangerous" /\ ~ad

\* The loop `for raw, stmt in zip(statements, parsed)`: pair i takes the
\* i-th non-empty statement text and the i-th entry of the second parse,
\* empty chunks included.  Classifying a None entry raises AttributeError
\* (stmt.sql on None), and so may classifying a Command node; neither is
\* caught by _prepare_statements.
PrepareStatements(sql, ad, ap) ==
    IF ParseFails(sql)
    THEN [executable |-> <<>>, skipped |-> <<>>,
          prep_error |-> <<"SQL parse error">>, raises |-> FALSE]
    ELSE LET statements == SplitStatements(sql)
             n == Len(statements)
         IN IF n = 0
            THEN [executable |-> <<>>, skipped |-> <<>>,
                  prep_error |-> <<"No executable statements found in SQL script">>,
                  raises |-> FALSE]
            ELSE IF \E i \in 1..n :
                       sql[i] = NONE \/ ClassifyStatement(sql[i]) = RAISES
            THEN [executable |-> <<>>, skipped |-> <<>>,
                  prep_error |-> <<>>, raises |-> TRUE]
            ELSE LET Skip(i) == Filtered(ClassifyStatement(sql[i]), ad, ap)
                     idx == [i \in 1..n |-> i]
                     keep == SelectSeq(idx, LAMBDA i : ~Skip(i))
                     drop == SelectSeq(idx, LAMBDA i : Skip(i))
                 IN [executable |-> [j \in 1..Len(keep) |-> statements[keep[j]]],
                     skipped |-> [j \in 1..Len(drop) |-> statements[drop[j]]],
                     prep_error |-> <<>>, raises |-> FALSE]

----------------------------------------------------------------------------
(* The target database as one verifier call sees it *)

\* failAt value meaning that no statement raises
NoFail == MaxStmts + 1

\* What the database does during one call: whether psycopg.connect raises,
\* which execute raises (0: the BEGIN, k: the k-th permitted statement),
\* whether the exception is a psycopg.Error ("db") or not ("other"),
\* whether conn.rollback() or conn.commit() itself raises, and what the
\* psycopg.Error carries: a diag.message_primary, a diag.context.
Envs ==
    {e \in [connectFails : BOOLEAN, failAt : 0..NoFail,
            errKind : {"db", "other"}, rollbackFails : BOOLEAN,
            commitFails : BOOLEAN, hasPrimary : BOOLEAN,
            hasContext : BOOLEAN] :
        /\ e.connectFails => (e.failAt = NoFail /\ ~e.rollbackFails)
        /\ e.failAt = NoFail => e.errKind = "db"
        /\ e.commitFails =>
              (e.failAt = NoFail /\ ~e.connectFails /\ ~e.rollbackFails)
        /\ (e.failAt = NoFail \/ e.errKind = "other") =>
              (~e.hasPrimary /\ ~e.hasContext)}

\* the environments that differ for a call that is to execute n
\* statements: a failure of a statement beyond the n-th is no failure
EnvsFor(n) == {e \in Envs : e.failAt <= n \/ e.failAt = NoFail}

\* the database answers every call
QuietEnv ==
    [connectFails |-> FALSE, failAt |-> NoFail, errKind |-> "db",
     rollbackFails |-> FALSE, commitFails |-> FALSE, hasPrimary |-> FALSE,
     hasContext |-> FALSE]

\* what the database does during the verifications of a workflow run
\* (a failure of the first statement stands for a failure of any, an
\* error with a primary message and no context for any psycopg.Error)
WorkflowEnvs ==
    {e \in Envs :
        /\ e.failAt \in {0, 1, NoFail}
        /\ e.failAt = 0 => e.errKind = "db"
        /\ e.rollbackFails => e.failAt = NoFail
        /\ ~e.commitFails /\ ~e.hasContext
        /\ e.hasPrimary = (e.failAt # NoFail /\ e.errKind = "db")}

Result(success, error, skipped, executed, notes) ==
    [success |-> success, error |-> error, skipped_statements |-> skipped,
     executed_statements |-> executed, notes |-> notes]

\* index of the last COMMIT statement among the first k of stmts (0: none)
LastCommit(stmts, k) ==
    LET at == {i \in 1..k : EndsTransaction(stmts[i])}
    IN IF at = {} THEN 0 ELSE CHOOSE i \in at : \A j \in at : j <= i

\* writes made permanent by the script's own transaction control when the
\* first k statements of stmts have executed
PersistedByScript(stmts, k) ==
    {stmts[i] : i \in {j \in 1..LastCommit(stmts, k) : Writes(stmts[j])}}

\* writes of the first k statements (made permanent by conn.commit())
AllWrites(stmts, k) == {stmts[i] : i \in {j \in 1..k : Writes(stmts[j])}}

\* number of statements that executed without raising
Executed(stmts, env) ==
    IF env.failAt > Len(stmts) THEN Len(stmts)
    ELSE IF env.failAt = 0 THEN 0 ELSE env.failAt - 1

\* the statements handed to cur.execute, in order, the raising one included
Attempted(stmts, env) ==
    SubSeq(stmts, 1, IF env.failAt > Len(stmts) THEN Len(stmts) ELSE env.failAt)

\* primary or fallback_message
ErrorText(env) == IF env.hasPrimary THEN "diag.message_primary" ELSE "str(db_err)"

\* the " | Context: ..." part, when the error carries one
ContextPart(env) == IF env.hasContext THEN <<"Context: diag.context">> ELSE <<>>

\* variant: the diagnostic leaves the statement index out
DbErrorMessageNoIndex(idx, stmts, env) ==
    <<"Statement failed: " \o ErrorText(env)>> \o ContextPart(env)
    \o (IF idx = 0 THEN <<>> ELSE <<"SQL: " \o stmts[idx]>>)

\* the diagnostic of verify_sql (lines 99-110); idx = 0 is a failing BEGIN,
\* for which failing_idx and failing_stmt are still None
DbErrorMessage(idx, stmts, env) ==
    <<"Statement #" \o (IF idx = 0 THEN "None" ELSE ToString(idx))
        \o " failed: " \o ErrorText(env)>>
    \o ContextPart(env)
    \o (IF idx = 0 THEN <<>> ELSE <<"SQL: " \o stmts[idx]>>)

Call(result, log, persisted, raises) ==
    [result |-> result, log |-> log, persisted |-> persisted, raises |-> raises]

NoResult == Result(FALSE, <<>>, <<>>, 0, <<>>)

----------------------------------------------------------------------------
(* VerifierAgent.verify_sql *)

\* what verify_sql does on the connection once psycopg.connect returned:
\* BEGIN, the permitted statements up to the first that raises, and the
\* rollback of the finally clause
\* variant: the rollback sits in the success and psycopg.Error paths only,
\* not in a finally clause
VerifyConnLogNoFinally(executable, env) ==
    <<"connect", "BEGIN">> \o Attempted(executable, env)
    \o (IF env.failAt <= Len(executable) /\ env.errKind = "other"
        THEN <<>> ELSE <<"conn.rollback">>)

VerifyConnLog(executable, env) ==
    <<"connect", "BEGIN">> \o Attempted(executable, env) \o <<"conn.rollback">>

\* the result of the execution part (lines 71-122)
VerifyOutcome(executable, skipped, env) ==
    LET executed == Executed(executable, env)
    IN IF env.rollbackFails THEN
           Result(FALSE, <<"rollback failed">>, <<>>, 0, <<>>)
       ELSE IF env.failAt > Len(executable) THEN
           Result(TRUE, <<>>, skipped, executed,
                  <<"Data parity is not validated; please run your own comparisons.">>)
       ELSE IF env.errKind = "db" THEN
           Result(FALSE, DbErrorMessage(env.failAt, executable, env), skipped,
                  executed, <<>>)
       ELSE Result(FALSE, <<"system error">>, <<>>, 0, <<>>)

\* verify_sql from line 52 on, prep being what _prepare_statements returned
VerifyPrepared(sql, prep, env) ==
    IF sql = <<>> THEN
        Call(Result(FALSE, <<"Empty SQL script">>, <<>>, 0, <<>>), <<>>, {}, FALSE)
    ELSE LET executable == prep.executable
             skipped == prep.skipped
         IN
         IF prep.raises THEN Call(NoResult, <<>>, {}, TRUE)
         ELSE IF prep.prep_error # <<>> THEN
             Call(Result(FALSE, prep.prep_error, <<>>, 0, <<>>), <<>>, {}, FALSE)
         ELSE IF executable = <<>> /\ skipped # <<>> THEN
             Call(Result(TRUE, <<>>, skipped, 0,
                         <<"All statements skipped due to verification safety settings">>),
                  <<>>, {}, FALSE)
         ELSE IF env.connectFails THEN
             Call(Result(FALSE, <<"connection failed">>, <<>>, 0, <<>>),
                  <<"connect">>, {}, FALSE)
         ELSE Call(VerifyOutcome(executable, skipped, env),
                   VerifyConnLog(executable, env),
                   PersistedByScript(executable, Executed(executable, env)),
                   FALSE)

verify_sql(sql, ad, ap, env) ==
    VerifyPrepared(sql, PrepareStatements(sql, ad, ap), env)

----------------------------------------------------------------------------
(* VerifierAgent.apply_sql *)

\* apply_sql executes no BEGIN: an environment whose BEGIN raises lets
\* every statement through
ApplyEnv(env) == IF env.failAt = 0 THEN QuietEnv ELSE env

\* the diagnostic of apply_sql (lines 169-176): no statement index
ApplyErrorMessage(idx, stmts, env) ==
    <<ErrorText(env)>> \o ContextPart(env) \o <<"SQL: " \o stmts[idx]>>

\* conn.commit() follows the last statement; a psycopg.Error raised by a
\* statement or by the commit is answered by conn.rollback()
ApplyConnLog(executable, env) ==
    <<"connect">> \o Attempted(executable, env)
    \o (IF env.failAt > Len(executable)
        THEN <<"conn.commit">>
             \o (IF env.commitFails THEN <<"conn.rollback">> ELSE <<>>)
        ELSE IF env.errKind = "db" THEN <<"conn.rollback">> ELSE <<>>)

ApplyOutcome(executable, skipped, env) ==
    LET executed == Executed(executable, env)
    IN IF env.failAt > Len(executable) THEN
           IF env.commitFails
           THEN Result(FALSE,
                       ApplyErrorMessage(Len(executable), executable, env),
                       skipped, executed, <<>>)
           ELSE Result(TRUE, <<>>, skipped, executed,
                       <<"Statements applied to target database.">>)
       ELSE IF env.errKind = "db" THEN
           IF env.rollbackFails
           THEN Result(FALSE, <<"rollback failed">>, <<>>, 0, <<>>)
           ELSE Result(FALSE, ApplyErrorMessage(env.failAt, executable, env),
                       skipped, executed, <<>>)
       ELSE Result(FALSE, <<"system error">>, <<>>, 0, <<>>)

ApplyPersisted(executable, env) ==
    IF env.failAt > Len(executable) /\ ~env.commitFails
    THEN AllWrites(executable, Len(executable))
    ELSE PersistedByScript(executable, Executed(executable, env))

\* apply_sql from line 131 on, prep being what _prepare_statements returned
ApplyPrepared(sql, prep, env0) ==
    IF sql = <<>> THEN
        Call(Result(FALSE, <<"Empty SQL script">>, <<>>, 0, <<>>), <<>>, {}, FALSE)
    ELSE LET executable == prep.executable
             skipped == prep.skipped
             env == ApplyEnv(env0)
         IN
         IF prep.raises THEN Call(NoResult, <<>>, {}, TRUE)
         ELSE IF prep.prep_error # <<>> THEN
             Call(Result(FALSE, prep.prep_error, <<>>, 0, <<>>), <<>>, {}, FALSE)
         ELSE IF executable = <<>> THEN
             Call(Result(TRUE, <<>>, skipped, 0,
                         <<"No executable statements after safety filtering">>),
                  <<>>, {}, FALSE)
         ELSE IF env.connectFails THEN
             Call(Result(FALSE, <<"connection failed">>, <<>>, 0, <<>>),
                  <<"connect">>, {}, FALSE)
         ELSE Call(ApplyOutcome(executable, skipped, env),
                   ApplyConnLog(executable, env),
                   ApplyPersisted(executable, env),
                   FALSE)

apply_sql(sql, ad, ap, env0) ==
    ApplyPrepared(sql, PrepareStatements(sql, ad, ap), env0)

----------------------------------------------------------------------------
(* RAGContextBuilder._extract_references.  A script is modelled by what   *)
(* sqlglot makes of it: whether build_scope yields a root scope, the       *)
(* scopes (each with its parent, the names its WITH clause defines and     *)
(* the names its FROM clause refers to) and the functions it invokes.      *)

\* names as written in scripts
TableNames == {"emp", "dept"}
CteNames == {"emp", "Emp"}
FuncSets == {{}, {"emp"}}

\* str.upper()
Upper(name) ==
    CASE name \in {"emp", "Emp", "EMP"} -> "EMP"
      [] name \in {"dept", "DEPT"} -> "DEPT"
      [] OTHER -> name

\* parent of each scope: the root has none (0), a later scope hangs under an
\* earlier one
Parents(n) ==
    {p \in [1..n -> 0..(n - 1)] :
        \A i \in 1..n : IF i = 1 THEN p[i] = 0 ELSE p[i] \in 1..(i - 1)}

\* the scopes of a query whose CTEs, where it has any, are called cte
ScopeSeqs(n, cte) ==
    {[i \in 1..n |-> [parent |-> p[i], ctes |-> b[i].ctes, tables |-> b[i].tables]] :
        p \in Parents(n),
        b \in [1..n -> [ctes : {{}, {cte}}, tables : SUBSET TableNames]]}

Queries ==
    UNION {[scoped : BOOLEAN, scopes : ScopeSeqs(n, cte), funcs : FuncSets] :
             n \in 1..MaxScopes, cte \in CteNames}

NoQuery == [scoped |-> TRUE, scopes |-> <<>>, funcs |-> {}]

\* names of the CTEs sqlglot has in scope.sources at scope i: those of the
\* scope's own WITH clause and of its ancestors' (inside the body of a CTE
\* only the earlier ones; the node's own test below covers the others)
RECURSIVE VisibleCtes(_, _)
VisibleCtes(q, i) ==
    IF i = 0 THEN {} ELSE q.scopes[i].ctes \cup VisibleCtes(q, q.scopes[i].parent)

\* the sources of scope i that are exp.Table: a name that matches a visible
\* CTE as written is a Scope instead
TableSources(q, i) == {t \in q.scopes[i].tables : t \notin VisibleCtes(q, i)}

\* variant: the test looks at the scope's own WITH clause only
IsCteOwnScope(q, i, table_name) ==
    i # 0 /\ table_name \in {Upper(c) : c \in q.scopes[i].ctes}

\* the loop `while current:` over the scope and its parents
RECURSIVE IsCte(_, _, _)
IsCte(q, i, table_name) ==
    IF i = 0 THEN FALSE
    ELSE IF table_name \in {Upper(c) : c \in q.scopes[i].ctes} THEN TRUE
    ELSE IsCte(q, q.scopes[i].parent, table_name)

ExtractReferences(q) ==
    LET idx == 1..Len(q.scopes)
        walked == {Upper(t) : t \in UNION {q.scopes[i].tables : i \in idx}}
        scopedRefs ==
            UNION {{Upper(t) : t \in {u \in TableSources(q, i) :
                                         ~IsCte(q, i, Upper(u))}} : i \in idx}
    IN (IF q.scoped THEN scopedRefs ELSE walked)
       \cup {Upper(f) : f \in q.funcs}

----------------------------------------------------------------------------
(* RAGContextBuilder: _fetch_metadata, _format_output, build_context       *)

\* a NULL column
NULL == "<null>"

\* the builder's project_name, and another project sharing the store
Project == "demo_project"
OtherProject == "other_project"

\* text stored in ddl_script or source_code of an object
Definition(col, project, schema, name, type) ==
    col \o " of " \o type \o " " \o schema \o "." \o name \o " in " \o project

Row(project, schema, name, type, ddl, source) ==
    [project_name |-> project, schema_name |-> schema, obj_name |-> name,
     obj_type |-> type,
     ddl_script |-> IF ddl THEN Definition("ddl", project, schema, name, type)
                   ELSE NULL,
     source_code |-> IF source THEN Definition("source", project, schema, name, type)
                     ELSE NULL]

\* rows the metadata extractor can store: tables with or without DDL, views
\* with DDL or with their definition as source, routines with source,
\* indexes with DDL; and one table of another project
RowUniverse ==
    {Row(Project, sc, nm, tp.type, tp.ddl, tp.source) :
        sc \in {"HR", "PUBLIC"}, nm \in {"DEPT", "EMP"},
        tp \in {[type |-> "TABLE", ddl |-> TRUE, source |-> FALSE],
                [type |-> "TABLE", ddl |-> FALSE, source |-> FALSE],
                [type |-> "VIEW", ddl |-> TRUE, source |-> FALSE],
                [type |-> "VIEW", ddl |-> FALSE, source |-> TRUE],
                [type |-> "FUNCTION", ddl |-> FALSE, source |-> TRUE],
                [type |-> "PROCEDURE", ddl |-> FALSE, source |-> TRUE],
                [type |-> "INDEX", ddl |-> TRUE, source |-> FALSE]}}
    \cup {Row(OtherProject, "HR", "EMP", "TABLE", TRUE, FALSE)}

\* UNIQUE(project_name, schema_name, obj_name, obj_type)
RowKey(r) == <<r.project_name, r.schema_name, r.obj_name, r.obj_type>>

\* the stores of at most MaxRows rows
Stores ==
    {st \in UNION {{{f[i] : i \in 1..k} : f \in [1..k -> RowUniverse]} :
                     k \in 0..MaxRows} :
        \A r1, r2 \in st : RowKey(r1) = RowKey(r2) => r1 = r2}

\* position of a schema or object name in the collation of the store
AlphaIndex(str) ==
    CASE str = "DEPT" -> 1
      [] str = "EMP" -> 2
      [] str = "HR" -> 3
      [] str = "PUBLIC" -> 4
      [] OTHER -> 5

\* variant: views rank before tables
RankViewsFirst(type) ==
    CASE type = "VIEW" -> 0
      [] type = "TABLE" -> 1
      [] OTHER -> 2

\* CASE obj_type WHEN 'TABLE' THEN 0 WHEN 'VIEW' THEN 1 ELSE 2 END
Rank(type) ==
    CASE type = "TABLE" -> 0
      [] type = "VIEW" -> 1
      [] OTHER -> 2

\* ORDER BY rank, schema_name, obj_name
SortKey(r) == <<Rank(r.obj_type), AlphaIndex(r.schema_name), AlphaIndex(r.obj_name)>>

KeyLess(a, b) ==
    \/ a[1] < b[1]
    \/ a[1] = b[1] /\ a[2] < b[2]
    \/ a[1] = b[1] /\ a[2] = b[2] /\ a[3] < b[3]

\* variant: rows of every project match
MatchesAnyProject(r, names, project) == r.obj_name \in names

\* WHERE obj_name IN (...) AND project_name = ?
Matches(r, names, project) == r.obj_name \in names /\ r.project_name = project

\* The row lists the query can return: the matching rows in an order that
\* agrees with ORDER BY.  The statement names no further sort column, so
\* rows with equal rank, schema and name come in whatever order the engine
\* produces.
FetchMetadata(names, st, project) ==
    IF names = {} THEN {<<>>}
    ELSE LET rows == {r \in st : Matches(r, names, project)}
             n == Cardinality(rows)
         IN {sq \in [1..n -> rows] :
                /\ \A i, j \in 1..n : i # j => sq[i] # sq[j]
                /\ \A i, j \in 1..n :
                      i < j => ~KeyLess(SortKey(sq[j]), SortKey(sq[i]))}

\* the lines _format_output appends for one row
EntryOf(meta) ==
    IF meta.obj_type \in {"TABLE", "VIEW"} /\ meta.ddl_script # NULL
    THEN <<"-- Table/View: " \o meta.schema_name \o "." \o meta.obj_name,
           meta.ddl_script>>
    ELSE IF meta.obj_type \in {"PROCEDURE", "FUNCTION", "PACKAGE"}
            /\ meta.source_code # NULL
    THEN <<"-- Source Code: " \o meta.schema_name \o "." \o meta.obj_name,
           meta.source_code>>
    ELSE <<>>

RECURSIVE Entries(_)
Entries(metadata_list) ==
    IF metadata_list = <<>> THEN <<>>
    ELSE EntryOf(Head(metadata_list)) \o Entries(Tail(metadata_list))

\* the text, as the lines "\n".join puts together
FormatOutput(metadata_list) ==
    <<"", "--- [Related Schema Information] ---">> \o Entries(metadata_list)
    \o <<"------------------------------------", "">>

ContextResult(context, names) == [context |-> context, referenced_names |-> names]

\* build_context once _fetch_metadata has returned metadata_list (the empty
\* list when the store raised)
BuildContext(q, metadata_list) ==
    LET referenced_names == ExtractReferences(q)
    IN IF referenced_names = {} THEN ContextResult(<<>>, {})
       ELSE IF metadata_list = <<>> THEN ContextResult(<<>>, referenced_names)
       ELSE ContextResult(FormatOutput(metadata_list), referenced_names)

----------------------------------------------------------------------------
(* MigrationWorkflow: the services it calls *)

\* source texts of the assets explored
SourceScripts ==
    { <<"SELECT 1">>,
      <<"INSERT INTO t VALUES (1)", "SELECT 1">>,
      <<BAD>> }

\* texts the rewrite service returns (after _extract_sql)
ConverterOutputs ==
    { <<"select 1">>,
      <<"INSERT INTO t VALUES (1)", "SELECT 1">>,
      <<"select 1", NONE, "SELECT 1">>,
      <<BAD>> }

\* normalized_sql of converter_node (lines 155-167): the statements of the
\* re-parsed text, serialized and joined; the text itself when
\* sqlglot.parse raises, and also when a statement of the list is None
\* (stmt.sql raises inside the same try block)
NormalizedSql(cleaned_sql) ==
    IF ParseFails(cleaned_sql) THEN cleaned_sql
    ELSE IF NONE \in {cleaned_sql[i] : i \in 1..Len(cleaned_sql)} THEN cleaned_sql
    ELSE [i \in 1..Len(cleaned_sql) |-> Serialize(cleaned_sql[i])]

\* responses of the review service
ReviewResponses == { <<"PASS">>, <<"FAIL: use COALESCE">>, <<>> }

\* context documents the context builder computes for an asset
ContextDocs == {"", "-- [Table/View DDL]"}

\* sqlglot.transpile(source_sql, ...)[0]: the first statement only; an
\* empty first chunk is rendered as the empty text
Transpile(source) ==
    IF source = <<>> \/ source[1] = NONE THEN <<>> ELSE <<source[1]>>

\* first_line.startswith("PASS")
IsPass(response) == response # <<>> /\ response[1] = "PASS"

----------------------------------------------------------------------------
(* MigrationWorkflow: routing functions *)

\* variant: every reviewed text goes on to verification
check_review_always(st) == "verifier"

check_review(st) == IF st = "REVIEW_PASS" THEN "verifier" ELSE "converter"

check_verification(st) == IF st = "DONE" THEN "END" ELSE "converter"

\* off-by-one variants of check_retry
check_retry_early(rc, mr) == IF rc + 1 < mr THEN "reviewer" ELSE "fail"

check_retry_late(rc, mr) == IF rc <= mr THEN "reviewer" ELSE "fail"

check_retry(rc, mr) == IF rc < mr THEN "reviewer" ELSE "fail"

\* f"Reached max retries ({self.max_retries}) without passing verification."
MaxRetryMsg(mr) ==
    "Reached max retries (" \o ToString(mr) \o ") without passing verification."

\* max_retry_msg in error_msg
Contains(msg, part) == \E i \in 1..Len(msg) : msg[i] = part

\* responses of the review service to a run whose budget is mr: the service
\* may also echo the max-retries notice, here twice
ReviewResponsesOf(mr) ==
    ReviewResponses \cup {<<MaxRetryMsg(mr), MaxRetryMsg(mr)>>}

\* variant: the notice is appended without looking at the message
FailMessageAlwaysAppend(msg, mr) == Append(msg, MaxRetryMsg(mr))

FailMessage(msg, mr) ==
    LET m == IF msg # <<>> THEN msg ELSE <<MaxRetryMsg(mr)>>
    IN IF ~Contains(m, MaxRetryMsg(mr)) THEN Append(m, MaxRetryMsg(mr)) ELSE m

----------------------------------------------------------------------------
(* MigrationWorkflow: nodes.  Each action is one node of the compiled     *)
(* graph together with the edge that leaves it (_build_graph).             *)

\* variant: a rejection does not replace a message that is already there
ReviewMessageKept(response, previous) ==
    IF previous = <<>> THEN response ELSE previous

\* the error_msg a rejecting review leaves (workflow.py:115)
ReviewMessage(response, previous) == response

transpiler_node ==
    /\ node = "transpiler"
    /\ IF ParseFails(source_sql)
       THEN /\ target_sql' = source_sql
            /\ error_msg' = <<"transpile error">>
            /\ status' = "FAILED"
            /\ transpileFailed' = TRUE
       ELSE /\ target_sql' = Transpile(source_sql)
            /\ status' = "PENDING"
            /\ UNCHANGED <<error_msg, transpileFailed>>
    /\ node' = "reviewer"
    /\ UNCHANGED <<cfgVars, portVars, parVars, unitVars, ctxVars, batchVars, source_sql, retry_count, rag_context,
                   skipped_statements, executed_statements, ctx_doc,
                   convCalls, reviewCalls, reviewPasses, verifyCalls, ragCalls,
                   raised, lastReview, lastRewrite, dbVars>>

reviewer_node ==
    /\ node = "reviewer"
    /\ reviewCalls' = reviewCalls + 1
    /\ \/ \E response \in ReviewResponsesOf(max_retries) :
            /\ IF IsPass(response)
               THEN /\ status' = "REVIEW_PASS"
                    /\ reviewPasses' = reviewPasses + 1
                    /\ UNCHANGED error_msg
               ELSE /\ status' = "REVIEW_FAIL"
                    /\ error_msg' = ReviewMessage(response, error_msg)
                    /\ UNCHANGED reviewPasses
            /\ lastReview' = [sql |-> target_sql, response |-> response,
                              rewrites |-> convCalls,
                              verifies |-> verifyCalls]
            /\ node' = check_review(status')
            /\ UNCHANGED raised
       \/ \* self.llm.invoke raises: nothing in the node catches it
          /\ node' = "RAISED"
          /\ raised' = TRUE
          /\ lastReview' = [sql |-> target_sql, response |-> <<>>,
                            rewrites |-> convCalls,
                            verifies |-> verifyCalls]
          /\ UNCHANGED <<status, error_msg, reviewPasses>>
    /\ UNCHANGED <<cfgVars, portVars, parVars, unitVars, ctxVars, batchVars, source_sql, target_sql, retry_count, rag_context,
                   skipped_statements, executed_statements, ctx_doc,
                   convCalls, verifyCalls, ragCalls, transpileFailed,
                   lastRewrite, dbVars>>

\* the verifier method verifier_node calls
VerifierNodeCall == "verify_sql"

VerifierCall(method, sql, ad, ap, env) ==
    IF method = "verify_sql" THEN verify_sql(sql, ad, ap, env)
    ELSE apply_sql(sql, ad, ap, env)

\* the same call, prep being what its _prepare_statements returns
PreparedCall(method, sql, prep, env) ==
    IF method = "verify_sql" THEN VerifyPrepared(sql, prep, env)
    ELSE ApplyPrepared(sql, prep, env)

\* The part of env0 the call c met, n being the number of statements it
\* was to execute: QuietEnv when it opened no connection, and no failure
\* of a call it did not reach.
EnvSeen(method, c, n, env0) ==
    LET env == IF method = "apply_sql" THEN ApplyEnv(env0) ELSE env0
        rollbackSeen == env.rollbackFails /\
            (method = "verify_sql" \/ (env.failAt <= n /\ env.errKind = "db"))
    IN IF c.log = <<>> THEN QuietEnv
       ELSE IF env.connectFails THEN env
       ELSE IF env.failAt > n
       THEN [QuietEnv EXCEPT !.rollbackFails = rollbackSeen,
                             !.commitFails = (method = "apply_sql" /\ env.commitFails)]
       ELSE [env EXCEPT !.rollbackFails = rollbackSeen]

\* status the node stores for a VerificationResult
\* variant: a result with skipped statements counts as a failure
VerifierStatusStrict(result) ==
    IF result.success /\ result.skipped_statements = <<>>
    THEN "DONE" ELSE "VERIFY_FAIL"

VerifierStatus(result) == IF result.success THEN "DONE" ELSE "VERIFY_FAIL"

verifier_node ==
    /\ node = "verifier"
    /\ verifyCalls' = verifyCalls + 1
    /\ LET prep == PrepareStatements(target_sql, allow_dangerous,
                                     allow_procedures)
       IN \E env \in WorkflowEnvs :
        LET c == PreparedCall(VerifierNodeCall, target_sql, prep, env)
        IN /\ lastCall' = VerifierNodeCall
           /\ lastScript' = target_sql
           /\ lastResult' = c.result
           /\ connLog' = c.log
           /\ lastEnv' = EnvSeen(VerifierNodeCall, c, Len(prep.executable), env)
           /\ dbBefore' = dbCommitted
           /\ dbCommitted' = dbCommitted \cup c.persisted
           /\ IF c.raises
              THEN /\ node' = "RAISED"
                   /\ raised' = TRUE
                   /\ UNCHANGED <<status, error_msg, skipped_statements,
                                  executed_statements>>
              ELSE /\ status' = VerifierStatus(c.result)
                   /\ error_msg' = IF c.result.success THEN c.result.notes
                                   ELSE c.result.error
                   /\ skipped_statements' = c.result.skipped_statements
                   /\ executed_statements' = c.result.executed_statements
                   /\ node' = check_verification(status')
                   /\ UNCHANGED raised
    /\ UNCHANGED <<cfgVars, portVars, parVars, unitVars, ctxVars, batchVars, source_sql, target_sql, retry_count, rag_context,
                   ctx_doc, convCalls, reviewCalls, reviewPasses, ragCalls,
                   transpileFailed, lastReview, lastRewrite>>

\* The prompt of the rewrite call is formatted from the context, target_sql
\* and error_msg of the state as the node finds it (lines 146-150).
converter_node ==
    /\ node = "converter"
    /\ convCalls' = convCalls + 1
    /\ ragCalls' = IF rag_context = "" THEN ragCalls + 1 ELSE ragCalls
    /\ \/ \E cleaned_sql \in ConverterOutputs :
            /\ target_sql' = NormalizedSql(cleaned_sql)
            /\ retry_count' = retry_count + 1
            /\ rag_context' = IF rag_context = "" THEN ctx_doc ELSE rag_context
            /\ lastRewrite' = [cleaned_sql |-> cleaned_sql,
                               reviews |-> reviewCalls, verifies |-> verifyCalls]
            /\ node' = check_retry(retry_count', max_retries)
            /\ UNCHANGED raised
       \/ \* self.rag.build_context or self.llm.invoke raises
          /\ node' = "RAISED"
          /\ raised' = TRUE
          /\ UNCHANGED <<target_sql, retry_count, rag_context, lastRewrite>>
    /\ UNCHANGED <<cfgVars, portVars, parVars, unitVars, ctxVars, batchVars, status, source_sql, error_msg,
                   skipped_statements, executed_statements, ctx_doc,
                   reviewCalls, reviewPasses, verifyCalls, transpileFailed,
                   lastReview, dbVars>>

fail_node ==
    /\ node = "fail"
    /\ status' = "FAILED"
    /\ error_msg' = FailMessage(error_msg, max_retries)
    /\ node' = "END"
    /\ UNCHANGED <<cfgVars, portVars, parVars, unitVars, ctxVars, batchVars, source_sql, target_sql, retry_count, rag_context,
                   skipped_statements, executed_statements, ctx_doc,
                   histVars, dbVars>>

----------------------------------------------------------------------------
(* One asset's run: run_migration's initial_state, then the graph *)

NoCall ==
    /\ dbCommitted = {}
    /\ dbBefore = {}
    /\ lastCall = "none"
    /\ lastResult = NoResult
    /\ connLog = <<>>
    /\ lastEnv = QuietEnv

\* no review call and no rewrite call made yet
NoReview == [sql |-> <<>>, response |-> <<>>, rewrites |-> 0, verifies |-> 0]
NoRewrite == [cleaned_sql |-> <<>>,
              reviews |-> 0, verifies |-> 0]

NoHistory ==
    /\ lastReview = NoReview
    /\ lastRewrite = NoRewrite
    /\ convCalls = 0
    /\ reviewCalls = 0
    /\ reviewPasses = 0
    /\ verifyCalls = 0
    /\ ragCalls = 0
    /\ transpileFailed = FALSE
    /\ raised = FALSE

\* a single workflow, with no other beside it
NoParallel ==
    /\ active = 0
    /\ parked = <<>>

\* no project store
NoPort ==
    /\ target_dir = ""
    /\ source_assets = {}
    /\ rendered_outputs = {}
    /\ migration_logs = {}
    /\ pending_assets = <<>>
    /\ run = 0

\* no batch around the run, no call of the context builder
NoBatch ==
    /\ script = <<>>
    /\ schema_refs = {}
    /\ classified = <<>>
    /\ NoParallel
    /\ NoPort
    /\ query = NoQuery
    /\ store = {}
    /\ refs = {}
    /\ ctxOut = <<>>
    /\ pending = <<>>
    /\ cursor = 0
    /\ done = 0
    /\ failed = 0
    /\ outcomes = <<>>

Init ==
    /\ NoBatch
    /\ command_this = "str"
    /\ max_retries \in 1..MaxRetriesBound
    /\ allow_dangerous \in BOOLEAN
    \* no text of a run holds a procedure call: the procedure policy has
    \* nothing to act on
    /\ allow_procedures = FALSE
    /\ node = "transpiler"
    /\ status = "PENDING"
    /\ source_sql \in SourceScripts
    /\ target_sql = <<>>
    /\ error_msg = <<>>
    /\ retry_count = 0
    /\ ctx_doc \in ContextDocs
    /\ rag_context \in {"", ctx_doc}
    /\ skipped_statements = <<>>
    /\ executed_statements = 0
    /\ NoHistory
    /\ NoCall
    /\ lastScript = <<>>

Next ==
    \/ transpiler_node
    \/ reviewer_node
    \/ verifier_node
    \/ converter_node
    \/ fail_node

Spec == Init /\ [][Next]_vars

\* the compiled graph runs a node whenever one is due
FairSpec == Spec /\ WF_vars(Next)

----------------------------------------------------------------------------
(* Two assets run on two workers of one MigrationWorkflow object, their    *)
(* nodes interleaved.  Every node function takes the AgentState of its own *)
(* run and returns that run's updates; the workflow object holds the       *)
(* services and max_retries (workflow.py:32-47), which no node assigns;    *)
(* verify_sql opens its own connection in each call.  The variables of a   *)
(* run hold the worker that is running, `parked` the one that waits.       *)

\* the state of the run in hand: its AgentState, its position in the graph
\* and its history
RunState ==
    [node |-> node, status |-> status, source_sql |-> source_sql,
     target_sql |-> target_sql, error_msg |-> error_msg,
     retry_count |-> retry_count, rag_context |-> rag_context,
     skipped_statements |-> skipped_statements,
     executed_statements |-> executed_statements, ctx_doc |-> ctx_doc,
     convCalls |-> convCalls, reviewCalls |-> reviewCalls,
     reviewPasses |-> reviewPasses, verifyCalls |-> verifyCalls,
     ragCalls |-> ragCalls, transpileFailed |-> transpileFailed,
     raised |-> raised, lastReview |-> lastReview,
     lastRewrite |-> lastRewrite]

\* what everything but the retry counter of a run is resumed from
ResumeButRetryCount(own) ==
    /\ node' = own.node
    /\ status' = own.status
    /\ source_sql' = own.source_sql
    /\ target_sql' = own.target_sql
    /\ error_msg' = own.error_msg
    /\ rag_context' = own.rag_context
    /\ skipped_statements' = own.skipped_statements
    /\ executed_statements' = own.executed_statements
    /\ ctx_doc' = own.ctx_doc
    /\ convCalls' = own.convCalls
    /\ reviewCalls' = own.reviewCalls
    /\ reviewPasses' = own.reviewPasses
    /\ verifyCalls' = own.verifyCalls
    /\ ragCalls' = own.ragCalls
    /\ transpileFailed' = own.transpileFailed
    /\ raised' = own.raised
    /\ lastReview' = own.lastReview
    /\ lastRewrite' = own.lastRewrite

\* variant: the retry counter is kept on the workflow object, one for all
\* the runs
ResumeSharedRetryCount(own) ==
    /\ ResumeButRetryCount(own)
    /\ UNCHANGED retry_count

\* a worker goes on from the state its own run was left in
Resume(own) ==
    /\ ResumeButRetryCount(own)
    /\ retry_count' = own.retry_count

\* the scheduler passes from one worker to the other
switch ==
    /\ active \in 1..2
    /\ active' = 3 - active
    /\ parked' = RunState
    /\ Resume(parked)
    /\ UNCHANGED <<cfgVars, dbVars, batchVars, ctxVars, unitVars, portVars>>

\* the next node of the worker that is running
worker_step ==
    /\ active \in 1..2
    /\ \/ transpiler_node
       \/ reviewer_node
       \/ verifier_node
       \/ converter_node
       \/ fail_node

\* initial_state (main.py:370-381) of a run on `source`
InitialRun(source, doc) ==
    [node |-> "transpiler", status |-> "PENDING", source_sql |-> source,
     target_sql |-> <<>>, error_msg |-> <<>>, retry_count |-> 0,
     rag_context |-> "", skipped_statements |-> <<>>,
     executed_statements |-> 0, ctx_doc |-> doc,
     convCalls |-> 0, reviewCalls |-> 0, reviewPasses |-> 0,
     verifyCalls |-> 0, ragCalls |-> 0, transpileFailed |-> FALSE,
     raised |-> FALSE, lastReview |-> NoReview, lastRewrite |-> NoRewrite]

ParallelInit ==
    /\ script = <<>>
    /\ schema_refs = {}
    /\ classified = <<>>
    /\ NoPort
    /\ query = NoQuery
    /\ store = {}
    /\ refs = {}
    /\ ctxOut = <<>>
    /\ pending = <<>>
    /\ cursor = 0
    /\ done = 0
    /\ failed = 0
    /\ outcomes = <<>>
    /\ command_this = "str"
    /\ max_retries = 1
    /\ allow_dangerous = FALSE
    /\ allow_procedures = FALSE
    /\ active = 1
    /\ \E other \in SourceScripts :
          parked = InitialRun(other, "-- [Table/View DDL]")
    /\ node = "transpiler"
    /\ status = "PENDING"
    /\ source_sql \in SourceScripts
    /\ target_sql = <<>>
    /\ error_msg = <<>>
    /\ retry_count = 0
    /\ ctx_doc = ""
    /\ rag_context = ""
    /\ skipped_statements = <<>>
    /\ executed_statements = 0
    /\ NoHistory
    /\ NoCall
    /\ lastScript = <<>>

ParallelNext ==
    \/ worker_step
    \/ switch

ParallelSpec == ParallelInit /\ [][ParallelNext]_vars

----------------------------------------------------------------------------
(* Direct calls of the verifier (tests, main._apply_outputs): one call of  *)
(* verify_sql or apply_sql on any script, under any policy                 *)

VerifierInit ==
    /\ NoBatch
    /\ max_retries = 1
    /\ allow_dangerous \in BOOLEAN
    /\ allow_procedures \in BOOLEAN
    /\ node = "call"
    /\ status = "PENDING"
    /\ source_sql = <<>>
    /\ target_sql = <<>>
    /\ error_msg = <<>>
    /\ retry_count = 0
    /\ ctx_doc = ""
    /\ rag_context = ""
    /\ skipped_statements = <<>>
    /\ executed_statements = 0
    /\ NoHistory
    /\ NoCall
    /\ lastScript \in Scripts
    \* the installed sqlglot matters to scripts with a Command node only
    /\ command_this \in
         IF \E i \in 1..Len(lastScript) : NodeType(lastScript[i]) = "Command"
         THEN CommandThis ELSE {"str"}

DirectCall(method) ==
    /\ LET prep == PrepareStatements(lastScript, allow_dangerous,
                                     allow_procedures)
       IN \E env \in EnvsFor(Len(prep.executable)) :
        LET c == PreparedCall(method, lastScript, prep, env)
        IN /\ lastCall' = method
           /\ lastResult' = c.result
           /\ connLog' = c.log
           /\ lastEnv' = EnvSeen(method, c, Len(prep.executable), env)
           /\ dbBefore' = dbCommitted
           /\ dbCommitted' = dbCommitted \cup c.persisted
           /\ raised' = c.raises
           /\ node' = IF c.raises THEN "RAISED" ELSE "returned"
    /\ UNCHANGED <<cfgVars, portVars, parVars, unitVars, ctxVars, batchVars, agentVars, convCalls,
                   reviewCalls, reviewPasses, verifyCalls, ragCalls,
                   transpileFailed, lastReview, lastRewrite, lastScript>>

verify_call ==
    /\ node = "call"
    /\ DirectCall("verify_sql")

apply_call ==
    /\ node = "call"
    /\ DirectCall("apply_sql")

VerifierNext ==
    \/ verify_call
    \/ apply_call

VerifierSpec == VerifierInit /\ [][VerifierNext]_vars

----------------------------------------------------------------------------
(* run_migration: the loop over the pending assets (main.py:356-447).     *)
(* Each asset's workflow runs node by node between start_asset and         *)
(* finish_asset.                                                           *)

\* what the SQLite store and the output directory do while an asset's
\* result is recorded: save_rendered_output raises, the mirror file write
\* raises, the INSERT into migration_logs raises, or none does
StoreFaults == {"ok", "save_fails", "mirror_fails", "log_fails"}

\* how app.invoke ended: by an exception, or with the final status
Outcome == IF node = "RAISED" THEN "RAISED" ELSE status

\* what one iteration adds to the counters done and failed
Counted(outcome, target, fault) ==
    IF outcome = "RAISED" THEN [done |-> 0, failed |-> 1]
    ELSE IF outcome = "DONE" /\ target # <<>> THEN
        CASE fault = "save_fails" -> [done |-> 0, failed |-> 1]
          [] fault \in {"mirror_fails", "log_fails"} -> [done |-> 1, failed |-> 1]
          [] OTHER -> [done |-> 1, failed |-> 0]
    ELSE IF fault = "log_fails" THEN [done |-> 0, failed |-> 2]
    ELSE [done |-> 0, failed |-> 1]

\* variant: an exception of app.invoke leaves run_migration
LoopAfterReraise(outcome) == IF outcome = "RAISED" THEN "aborted" ELSE "loop"

\* where control goes after an iteration: `except Exception` counts the
\* asset as failed and the for loop takes the next asset
LoopAfter(outcome) == "loop"

\* lines 358-381: the context is pre-computed (an exception or an empty
\* document leaves rag_context None) and initial_state is built
start_asset ==
    /\ node = "loop"
    /\ cursor <= Len(pending)
    /\ source_sql' = pending[cursor]
    /\ ctx_doc' \in ContextDocs
    /\ rag_context' \in {"", ctx_doc'}
    /\ target_sql' = <<>>
    /\ status' = "PENDING"
    /\ error_msg' = <<>>
    /\ retry_count' = 0
    /\ skipped_statements' = <<>>
    /\ executed_statements' = 0
    /\ convCalls' = 0 /\ reviewCalls' = 0 /\ reviewPasses' = 0
    /\ verifyCalls' = 0 /\ ragCalls' = 0
    /\ transpileFailed' = FALSE /\ raised' = FALSE
    /\ lastReview' = NoReview /\ lastRewrite' = NoRewrite
    /\ lastCall' = "none" /\ lastScript' = <<>> /\ lastResult' = NoResult
    /\ connLog' = <<>> /\ lastEnv' = QuietEnv
    /\ dbBefore' = dbCommitted
    /\ node' = "transpiler"
    /\ UNCHANGED <<cfgVars, portVars, parVars, unitVars, ctxVars, dbCommitted, batchVars>>

\* lines 385-446: what follows app.invoke, up to the end of the iteration
finish_asset ==
    /\ node \in {"END", "RAISED"}
    /\ \E fault \in StoreFaults :
        LET c == Counted(Outcome, target_sql, fault)
        IN /\ done' = done + c.done
           /\ failed' = failed + c.failed
    /\ outcomes' = Append(outcomes, Outcome)
    /\ cursor' = cursor + 1
    /\ node' = LoopAfter(Outcome)
    /\ UNCHANGED <<cfgVars, portVars, parVars, unitVars, ctxVars, agentVars, histVars, dbVars, pending>>

\* lines 449-460: the run summary
finish_run ==
    /\ node = "loop"
    /\ cursor > Len(pending)
    /\ node' = "summary"
    /\ UNCHANGED <<cfgVars, portVars, parVars, unitVars, ctxVars, agentVars, histVars, dbVars, batchVars>>

\* a batch is explored with the smallest retry budget validate_config
\* admits and the default verification policy
BatchInit ==
    /\ script = <<>>
    /\ schema_refs = {}
    /\ classified = <<>>
    /\ NoParallel
    /\ NoPort
    /\ query = NoQuery
    /\ store = {}
    /\ refs = {}
    /\ ctxOut = <<>>
    /\ command_this = "str"
    /\ max_retries = 1
    /\ allow_dangerous = FALSE
    /\ allow_procedures = FALSE
    /\ node = "loop"
    /\ pending \in UNION {[1..n -> SourceScripts] : n \in 1..MaxAssets}
    /\ cursor = 1
    /\ done = 0
    /\ failed = 0
    /\ outcomes = <<>>
    /\ status = "PENDING"
    /\ source_sql = <<>>
    /\ target_sql = <<>>
    /\ error_msg = <<>>
    /\ retry_count = 0
    /\ ctx_doc = ""
    /\ rag_context = ""
    /\ skipped_statements = <<>>
    /\ executed_statements = 0
    /\ NoHistory
    /\ NoCall
    /\ lastScript = <<>>

BatchNext ==
    \/ start_asset
    \/ transpiler_node
    \/ reviewer_node
    \/ verifier_node
    \/ converter_node
    \/ fail_node
    \/ finish_asset
    \/ finish_run

BatchSpec == BatchInit /\ [][BatchNext]_vars

\* run_migration runs to its end: each step is taken when it is due
BatchFairSpec == BatchSpec /\ WF_vars(BatchNext)

----------------------------------------------------------------------------
(* Direct calls of the context builder (tests/test_context_builder.py):   *)
(* two build_context calls on one script against one store                 *)

\* scripts given to build_context: SELECT * FROM emp, and
\* SELECT * FROM emp JOIN dept
ContextQueries ==
    {[scoped |-> TRUE, funcs |-> {},
      scopes |-> <<[parent |-> 0, ctes |-> {}, tables |-> t]>>] :
        t \in {{"emp"}, {"emp", "dept"}}}

\* each entry of ctxOut is the ContextResult of a call, with whether the
\* store raised during it
build_context ==
    /\ node = "build_context"
    /\ \E store_error \in BOOLEAN :
         \E rows \in FetchMetadata(ExtractReferences(query), store, Project) :
            LET names == ExtractReferences(query)
                failed_fetch == store_error /\ names # {}
                result == BuildContext(query, IF failed_fetch THEN <<>> ELSE rows)
            IN /\ ctxOut' = Append(ctxOut,
                                   [context |-> result.context,
                                    referenced_names |-> result.referenced_names,
                                    store_error |-> failed_fetch])
               /\ refs' = names
    /\ node' = IF Len(ctxOut) = 0 THEN "build_context" ELSE "returned"
    /\ UNCHANGED <<cfgVars, portVars, parVars, unitVars, agentVars, histVars, dbVars, batchVars, query,
                   store>>

\* everything but the context builder's own state
\* no workflow run: the state of a process that only calls a component
IdleWorkflow ==
    /\ max_retries = 1
    /\ allow_dangerous = FALSE
    /\ allow_procedures = FALSE
    /\ status = "PENDING"
    /\ source_sql = <<>>
    /\ target_sql = <<>>
    /\ error_msg = <<>>
    /\ retry_count = 0
    /\ ctx_doc = ""
    /\ rag_context = ""
    /\ skipped_statements = <<>>
    /\ executed_statements = 0
    /\ NoHistory
    /\ NoCall
    /\ lastScript = <<>>
    /\ pending = <<>>
    /\ cursor = 0
    /\ done = 0
    /\ failed = 0
    /\ outcomes = <<>>

NoWorkflow ==
    /\ command_this = "str"
    /\ IdleWorkflow

ContextInit ==
    /\ NoWorkflow
    /\ script = <<>>
    /\ schema_refs = {}
    /\ classified = <<>>
    /\ NoParallel
    /\ NoPort
    /\ node = "build_context"
    /\ query \in ContextQueries
    /\ store \in Stores
    /\ refs = {}
    /\ ctxOut = <<>>

ContextNext == build_context

ContextSpec == ContextInit /\ [][ContextNext]_vars

----------------------------------------------------------------------------
(* Direct calls of the dependency analyzer: one _extract_references call   *)
(* on any script                                                           *)

extract_references ==
    /\ node = "extract_references"
    /\ refs' = ExtractReferences(query)
    /\ node' = "returned"
    /\ UNCHANGED <<cfgVars, portVars, parVars, unitVars, agentVars, histVars, dbVars, batchVars, query,
                   store, ctxOut>>

AnalyzerInit ==
    /\ NoWorkflow
    /\ script = <<>>
    /\ schema_refs = {}
    /\ classified = <<>>
    /\ NoParallel
    /\ NoPort
    /\ node = "extract_references"
    /\ query \in Queries
    /\ store = {}
    /\ refs = {}
    /\ ctxOut = <<>>

AnalyzerNext == extract_references

AnalyzerSpec == AnalyzerInit /\ [][AnalyzerNext]_vars

----------------------------------------------------------------------------
(* Direct calls of the context builder on a whole script: one get_context  *)
(* call on a script of several statements                                  *)

\* statements of the scripts given to get_context
ScriptQueries == {"SELECT 1", "SELECT * FROM emp", "SELECT * FROM hr.dept"}

AnalyzerScripts ==
    UNION {[1..n -> ScriptQueries \cup {NONE, BAD}] : n \in 1..MaxStmts}

\* what sqlglot makes of a statement: its scopes and functions
QueryOf(text) ==
    [scoped |-> TRUE, funcs |-> {},
     scopes |-> <<[parent |-> 0, ctes |-> {},
                   tables |-> CASE text = "SELECT * FROM emp" -> {"emp"}
                                [] text = "SELECT * FROM hr.dept" -> {"dept"}
                                [] OTHER -> {}]>>]

\* table.args.get("db") of the tables _add_table_ref is given, upper-cased
SchemasOf(text) == IF text = "SELECT * FROM hr.dept" THEN {"HR"} ELSE {}

\* The loop `for stmt in parsed_statements` from statement i on, with the
\* names and schemas collected so far.  An empty chunk is None in the
\* list: the analysis of it raises, `except Exception` logs a warning, and
\* what has been collected is returned.
RECURSIVE CollectReferences(_, _, _)
CollectReferences(parsed_statements, i, acc) ==
    IF i > Len(parsed_statements) THEN acc
    ELSE IF parsed_statements[i] = NONE THEN acc
    ELSE CollectReferences(parsed_statements, i + 1,
            [names |-> acc.names \cup ExtractReferences(QueryOf(parsed_statements[i])),
             schemas |-> acc.schemas \cup SchemasOf(parsed_statements[i])])

\* _extract_references on a script: sqlglot.parse raises ParseError for the
\* whole script before the loop starts
ExtractScriptReferences(sql) ==
    IF ParseFails(sql) THEN [names |-> {}, schemas |-> {}]
    ELSE CollectReferences(sql, 1, [names |-> {}, schemas |-> {}])

\* the stores the scripts are analyzed against
ScriptStores ==
    {{}, {Row(Project, "HR", "EMP", "TABLE", TRUE, FALSE)},
     {Row(Project, "HR", "EMP", "TABLE", TRUE, FALSE),
      Row(Project, "HR", "DEPT", "TABLE", TRUE, FALSE)}}

\* build_context once the references are known and _fetch_metadata has
\* returned metadata_list
ContextFor(referenced_names, metadata_list) ==
    IF referenced_names = {} THEN <<>>
    ELSE IF metadata_list = <<>> THEN <<>>
    ELSE FormatOutput(metadata_list)

get_context ==
    /\ node = "get_context"
    /\ LET found == ExtractScriptReferences(script)
       IN /\ refs' = found.names
          /\ schema_refs' = found.schemas
          /\ \E store_error \in BOOLEAN :
               \E rows \in FetchMetadata(found.names, store, Project) :
                  LET failed_fetch == store_error /\ found.names # {}
                  IN ctxOut' = Append(ctxOut,
                        [context |-> ContextFor(found.names,
                                        IF failed_fetch THEN <<>> ELSE rows),
                         referenced_names |->
                            IF found.names = {} THEN {} ELSE found.names,
                         store_error |-> failed_fetch])
    /\ node' = "returned"
    /\ UNCHANGED <<cfgVars, portVars, parVars, agentVars, histVars, dbVars,
                   batchVars, query, store, script, classified>>

ScriptInit ==
    /\ NoWorkflow
    /\ node = "get_context"
    /\ script \in AnalyzerScripts
    /\ schema_refs = {}
    /\ classified = <<>>
    /\ NoParallel
    /\ NoPort
    /\ query = NoQuery
    /\ store \in ScriptStores
    /\ refs = {}
    /\ ctxOut = <<>>

ScriptNext == get_context

ScriptSpec == ScriptInit /\ [][ScriptNext]_vars

----------------------------------------------------------------------------
(* _classify_statement called on the statements of a script, one after the *)
(* other (verifier._prepare_statements, quality_check._check_verifier_safety) *)

\* longest script given to the classifier
MaxClassified == 2

ClassifierScripts ==
    UNION {[1..n -> StmtKinds \cup OtherStmts] : n \in 1..MaxClassified}

classify_statement ==
    /\ node = "classify"
    /\ Len(classified) < Len(script)
    /\ LET category == ClassifyStatement(script[Len(classified) + 1])
       IN IF category = RAISES
          THEN /\ node' = "RAISED"
               /\ raised' = TRUE
               /\ UNCHANGED classified
          ELSE /\ classified' = Append(classified, category)
               /\ UNCHANGED <<node, raised>>
    /\ UNCHANGED <<cfgVars, portVars, parVars, agentVars, dbVars, batchVars,
                   ctxVars, script, schema_refs, convCalls, reviewCalls,
                   reviewPasses, verifyCalls, ragCalls, transpileFailed,
                   lastReview, lastRewrite>>

ClassifierInit ==
    /\ IdleWorkflow
    /\ command_this \in CommandThis
    /\ node = "classify"
    /\ script \in ClassifierScripts
    /\ schema_refs = {}
    /\ classified = <<>>
    /\ NoParallel
    /\ NoPort
    /\ query = NoQuery
    /\ store = {}
    /\ refs = {}
    /\ ctxOut = <<>>

ClassifierNext == classify_statement

ClassifierSpec == ClassifierInit /\ [][ClassifierNext]_vars

----------------------------------------------------------------------------
(* Port runs over the project store: run_migration chooses the pending    *)
(* assets from the store, invokes the workflow on each and records the     *)
(* result in rendered_outputs and migration_logs.  The workflow is taken   *)
(* by the way it can end.                                                  *)

\* most port runs made on one store
MaxRuns == 2

\* the .sql files of project.source_dir, in the order of their names
SourceDir == "/work/input"
FileNames == <<"a.sql", "b.sql", "c.sql">>
NameOrder(name) == CHOOSE i \in 1..Len(FileNames) : FileNames[i] = name

\* texts a source file may hold
SourceTexts == {"SELECT 1 FROM dual", "SELECT 2 FROM dual"}

\* project.target_dir after validate_config: None (here ""), the source
\* directory itself, or a directory of its own
TargetDirs == {"", SourceDir, "/work/output"}

\* DBManager._hash_sql: equal digests for equal texts only
HashSql(sql_text) == "sha256(" \o sql_text \o ")"

\* os.path.join(dir, name)
JoinPath(dir, name) == dir \o "/" \o name

\* line 360: where the rendered output of an asset goes
OutputPath(file_name) ==
    IF target_dir # "" THEN JoinPath(target_dir, file_name) ELSE file_name

\* a row of source_assets as sync_source_asset writes it
SourceAsset(file_name, sql_text) ==
    [file_name |-> file_name, file_path |-> JoinPath(SourceDir, file_name),
     sql_text |-> sql_text, content_hash |-> HashSql(sql_text)]

\* INSERT ... ON CONFLICT(project_name, file_path) DO UPDATE
Upsert(table, row) == {r \in table : r.file_path # row.file_path} \cup {row}

\* the column of the row of `table` joined ON sa.file_path = file_path, or
\* NULL when the LEFT JOIN finds none
Joined(table, file_path, column) ==
    IF \E r \in table : r.file_path = file_path
    THEN (CHOOSE r \in table : r.file_path = file_path)[column]
    ELSE NULL

\* DBManager.list_source_assets: one row per asset
ListRow(sa) ==
    [file_name |-> sa.file_name, file_path |-> sa.file_path,
     sql_text |-> sa.sql_text, content_hash |-> sa.content_hash,
     source_hash |-> Joined(rendered_outputs, sa.file_path, "source_hash"),
     last_status |-> Joined(rendered_outputs, sa.file_path, "status"),
     log_status |-> Joined(migration_logs, sa.file_path, "status")]

\* lines 336-340: an asset is left out when it is DONE and unchanged
IsPending(asset) ==
    LET st == IF asset.last_status # NULL THEN asset.last_status
              ELSE asset.log_status
    IN ~(st = "DONE" /\ asset.source_hash = asset.content_hash)

\* ORDER BY sa.file_name
SortedByName(rows) ==
    CHOOSE seq \in [1..Cardinality(rows) -> rows] :
        \A i, j \in 1..Cardinality(rows) :
            i < j => NameOrder(seq[i].file_name) < NameOrder(seq[j].file_name)

\* how app.invoke can end: with a final status, or by an exception
FinalOutcomes == {"DONE", "FAILED", "RAISED"}

\* sync_source_asset on a file of the source directory that is registered
sync_source_asset ==
    /\ node = "idle"
    /\ \E sa \in source_assets : \E sql_text \in SourceTexts :
          source_assets' = Upsert(source_assets,
                                  SourceAsset(sa.file_name, sql_text))
    /\ UNCHANGED <<cfgVars, node, agentVars, histVars, dbVars, batchVars,
                   ctxVars, unitVars, parVars, target_dir, rendered_outputs,
                   migration_logs, pending_assets, run>>

\* lines 318-356: the pending assets of a run; with none the run returns
start_run ==
    /\ node = "idle"
    /\ run < MaxRuns
    /\ LET assets == {ListRow(sa) : sa \in source_assets}
           chosen == SortedByName({a \in assets : IsPending(a)})
       IN /\ pending_assets' = chosen
          /\ node' = IF chosen = <<>> THEN "idle" ELSE "port"
    /\ run' = run + 1
    /\ cursor' = 1
    /\ done' = 0
    /\ failed' = 0
    /\ outcomes' = <<>>
    /\ UNCHANGED <<cfgVars, agentVars, histVars, dbVars, pending, ctxVars,
                   unitVars, parVars, target_dir, source_assets,
                   rendered_outputs, migration_logs>>

\* lines 357-446: one iteration of the loop
port_asset ==
    /\ node = "port"
    /\ cursor <= Len(pending_assets)
    /\ LET asset == pending_assets[cursor]
       IN \E outcome \in FinalOutcomes :
          \E fault \in (IF target_dir = "" THEN StoreFaults \ {"mirror_fails"}
                        ELSE StoreFaults) :
            LET target == IF outcome = "DONE" THEN <<"SELECT 1">> ELSE <<>>
                c == Counted(outcome, target, fault)
                saved == outcome = "DONE" /\ fault # "save_fails"
                logged == /\ outcome # "RAISED"
                          /\ IF outcome = "DONE" THEN fault = "ok"
                             ELSE fault # "log_fails"
            IN /\ rendered_outputs' =
                    IF saved
                    THEN Upsert(rendered_outputs,
                                [file_path |-> OutputPath(asset.file_name),
                                 source_hash |-> asset.content_hash,
                                 status |-> outcome])
                    ELSE rendered_outputs
               /\ migration_logs' =
                    IF logged
                    THEN Upsert(migration_logs,
                                [file_path |-> asset.file_path,
                                 status |-> outcome])
                    ELSE migration_logs
               /\ done' = done + c.done
               /\ failed' = failed + c.failed
               /\ outcomes' = Append(outcomes, outcome)
    /\ cursor' = cursor + 1
    /\ UNCHANGED <<cfgVars, node, agentVars, histVars, dbVars, pending,
                   ctxVars, unitVars, parVars, target_dir, source_assets,
                   pending_assets, run>>

\* lines 449-462: the summary of the run
finish_port ==
    /\ node = "port"
    /\ cursor > Len(pending_assets)
    /\ node' = "idle"
    /\ UNCHANGED <<cfgVars, agentVars, histVars, dbVars, batchVars, ctxVars,
                   unitVars, parVars, portVars>>

\* a project whose source files have been ingested and never ported
PortInit ==
    /\ NoWorkflow
    /\ node = "idle"
    /\ script = <<>>
    /\ schema_refs = {}
    /\ classified = <<>>
    /\ NoParallel
    /\ query = NoQuery
    /\ store = {}
    /\ refs = {}
    /\ ctxOut = <<>>
    /\ target_dir \in TargetDirs
    /\ \E n \in 1..MaxAssets :
          source_assets = {SourceAsset(FileNames[i], "SELECT 1 FROM dual") :
                              i \in 1..n}
    /\ rendered_outputs = {}
    /\ migration_logs = {}
    /\ pending_assets = <<>>
    /\ run = 0

PortNext ==
    \/ sync_source_asset
    \/ start_run
    \/ port_asset
    \/ finish_port

PortSpec == PortInit /\ [][PortNext]_vars

----------------------------------------------------------------------------
(* Properties *)

Range(seq) == {seq[i] : i \in 1..Len(seq)}

IsPrefix(a, b) == Len(a) <= Len(b) /\ SubSeq(b, 1, Len(a)) = a

\* the policy of section 4.3 applied to one statement
Permitted(s) == ~Filtered(ClassifyStatement(s), allow_dangerous, allow_procedures)
NotPermitted(s) == ~Permitted(s)

\* the script of the last call splits into at least one statement
SplitsOk(sql) == ~ParseFails(sql) /\ SplitStatements(sql) # <<>>

\* the statements the last call handed to the database
IsStatement(x) == x \in StmtKinds
Ran == SelectSeq(connLog, IsStatement)

Terminal == node = "END" /\ status \in {"DONE", "FAILED"}

\* C1: with maxRetries = N and every review call failing, the run ends in
\* FAILED after exactly N calls of converter_node: it does end, it has made
\* N calls when it ends, and it never makes an (N+1)-th.
C1_ExactlyNCorrections ==
    /\ [](reviewPasses = 0 /\ node = "END"
            => status = "FAILED" /\ convCalls = max_retries)
    /\ [](reviewPasses = 0 => convCalls <= max_retries)
    /\ <>(reviewPasses > 0 \/ raised \/ node = "END")

C1_Witness ==
    /\ node = "END"
    /\ reviewPasses = 0
    /\ status = "FAILED"
    /\ max_retries = MaxRetriesBound
    /\ convCalls = max_retries

\* C2: 0 <= retry_count <= max_retries in every reachable state; only
\* converter_node changes retry_count, and every completed corrective pass
\* adds exactly 1.
C2_Step ==
    /\ retry_count' # retry_count
         => node = "converter" /\ retry_count' = retry_count + 1
    /\ node = "converter" /\ node' \in {"reviewer", "fail"}
         => retry_count' = retry_count + 1

C2_RetryCountBounded ==
    /\ [](0 <= retry_count /\ retry_count <= max_retries)
    /\ [][C2_Step]_vars

C2_Witness ==
    /\ retry_count = max_retries
    /\ max_retries = MaxRetriesBound
    /\ verifyCalls > 0
    /\ node = "END"

\* C3: a verify_sql call that started a transaction (executed BEGIN) ends
\* its work on the connection with conn.rollback(), on success, on a
\* database error and on any other exception; verify_sql never calls
\* conn.commit(); and the workflow calls no verifier method but verify_sql.
C3_RollbackAlways ==
    /\ lastCall \in {"none", "verify_sql"}
    /\ "conn.commit" \notin Range(connLog)
    /\ "BEGIN" \in Range(connLog) => connLog[Len(connLog)] = "conn.rollback"

C3_Witness ==
    /\ lastCall = "verify_sql"
    /\ "BEGIN" \in Range(connLog)
    /\ Ran # <<>>
    /\ lastResult.error = <<"system error">>

\* C4: after verify_sql returns, the committed state of the target database
\* is what it was before the call.
C4_NothingPersists == lastCall = "verify_sql" => dbCommitted = dbBefore

\* C5: once the transpilation service has failed, the run makes no review,
\* verification or rewrite call and its status stays FAILED with the
\* transpile error as message.
C5_TranspileFailureTerminal ==
    transpileFailed =>
        /\ reviewCalls = 0 /\ verifyCalls = 0 /\ convCalls = 0
        /\ status = "FAILED"
        /\ error_msg = <<"transpile error">>

\* C6 as stated: after a rewrite has incremented retry_count, the next node
\* is the reviewer whenever retry_count <= max_retries, and fail only when
\* retry_count > max_retries (stated for runs whose transpilation succeeded).
C6_Original ==
    [][~transpileFailed /\ node = "converter" /\ retry_count' = retry_count + 1
         => /\ retry_count' <= max_retries => node' = "reviewer"
            /\ node' = "fail" => retry_count' > max_retries]_vars

\* C6 as amended: after a rewrite has incremented retry_count, the next node
\* is the reviewer whenever retry_count < max_retries and fail whenever
\* retry_count >= max_retries; the rewrite that brings retry_count to
\* exactly max_retries is followed by fail.
C6_RetryWhileBelowMax ==
    [][node = "converter" /\ retry_count' = retry_count + 1
         => /\ retry_count' < max_retries => node' = "reviewer"
            /\ retry_count' >= max_retries => node' = "fail"]_vars

C6_Witness ==
    /\ node = "fail"
    /\ retry_count = max_retries
    /\ max_retries = MaxRetriesBound

\* C7: whatever the review verdicts and verification results, a run whose
\* calls all return reaches a terminal status, DONE or FAILED, and makes at
\* most max_retries calls of converter_node.
C7_Terminates ==
    /\ <>(raised \/ Terminal)
    /\ [](node = "END" => Terminal)
    /\ [](convCalls <= max_retries)

C7_Witness ==
    /\ Terminal
    /\ status = "FAILED"
    /\ verifyCalls > 0
    /\ max_retries = MaxRetriesBound
    /\ convCalls = max_retries

\* C8: for a script that splits, the call returns a result; the statements
\* it executes are, in script order, the statements the policy permits (all
\* of them when every one succeeds), and on success skipped_statements
\* lists the others.
C8_FilteringExact ==
    lastCall # "none" /\ SplitsOk(lastScript) =>
        /\ ~raised
        /\ IsPrefix(Ran, SelectSeq(SplitStatements(lastScript), Permitted))
        /\ lastResult.success =>
             /\ Ran = SelectSeq(SplitStatements(lastScript), Permitted)
             /\ lastResult.skipped_statements =
                  SelectSeq(SplitStatements(lastScript), NotPermitted)

\* C9: for a script that splits, the result of a call that returns lists
\* every statement the policy filtered out, on every return path.
C9_SkippedNeverDropped ==
    lastCall # "none" /\ SplitsOk(lastScript) /\ ~raised =>
        lastResult.skipped_statements =
            SelectSeq(SplitStatements(lastScript), NotPermitted)

\* C10 as stated: a verification that leaves statements unexecuted because
\* of policy does not end the asset in DONE (stated for runs whose
\* transpilation succeeded).
C10_Original ==
    ~transpileFailed /\ status = "DONE" =>
        \A i \in 1..Len(skipped_statements) :
            ClassifyStatement(skipped_statements[i]) # "dangerous"

\* C10 as amended: statements left unexecuted by policy do not make a
\* verification fail.  The asset ends in DONE exactly when verify_sql
\* reports success (every permitted statement executed without error, or
\* none was permitted), with the skipped statements recorded in its state;
\* it goes to the corrective rewrite exactly when verify_sql reports failure.
C10_SkippedIsNotFailure ==
    /\ status = "DONE" =>
         /\ node = "END"
         /\ lastResult.success
         /\ skipped_statements = SelectSeq(SplitStatements(lastScript), NotPermitted)
    /\ status = "VERIFY_FAIL" => ~lastResult.success /\ node # "END"
    /\ lastCall = "verify_sql" /\ lastResult.success => status = "DONE"

C10_Witness ==
    /\ node = "END"
    /\ status = "DONE"
    /\ skipped_statements # <<>>
    /\ executed_statements > 0

\* the database answered every call of the last verifier call
AllSucceeded == lastEnv = QuietEnv

\* C11: for a script that splits, (a) when the policy filters every
\* statement out, verify_sql returns success with the explanatory note,
\* executed_statements = 0 and every statement in skipped_statements, and
\* opens no connection; (b) when some statement is permitted and the
\* database answers every call, it executes the permitted statements and
\* returns success with executed_statements = their number and the note
\* that data parity is not validated.
C11_AllSkippedOrAllExecuted ==
    lastCall = "verify_sql" /\ SplitsOk(lastScript) =>
        LET stmts == SplitStatements(lastScript)
            permitted == SelectSeq(stmts, Permitted)
        IN /\ permitted = <<>> =>
                /\ ~raised
                /\ lastResult.success
                /\ lastResult.notes =
                     <<"All statements skipped due to verification safety settings">>
                /\ lastResult.executed_statements = 0
                /\ lastResult.skipped_statements = stmts
                /\ connLog = <<>>
           /\ permitted # <<>> /\ AllSucceeded =>
                /\ ~raised
                /\ Ran = permitted
                /\ lastResult.success
                /\ lastResult.executed_statements = Len(permitted)
                /\ lastResult.notes =
                     <<"Data parity is not validated; please run your own comparisons.">>

\* the last call met a psycopg.Error raised by its k-th executed statement
\* (and its own rollback went through)
DbErrorAt(k) ==
    /\ ~lastEnv.connectFails
    /\ lastEnv.errKind = "db"
    /\ lastEnv.failAt = k
    /\ ~lastEnv.rollbackFails

AllExecuted ==
    /\ connLog # <<>>
    /\ ~lastEnv.connectFails
    /\ lastEnv.failAt = NoFail

\* C13: in a call of apply_sql with at least one permitted statement,
\* conn.commit() is called exactly when every permitted statement executed
\* without error; a psycopg.Error during execution is answered by
\* conn.rollback() and no commit; a call that reports failure (or raises)
\* leaves the committed state of the database as it was, so that no part of
\* a script is made permanent without the rest.
C13_CommitIffAllSucceeded ==
    lastCall = "apply_sql"
    /\ SelectSeq(SplitStatements(lastScript), Permitted) # <<>> =>
        /\ "conn.commit" \in Range(connLog) <=> AllExecuted
        /\ (\E k \in 1..MaxStmts : lastEnv.errKind = "db" /\ lastEnv.failAt = k) =>
              /\ "conn.rollback" \in Range(connLog)
              /\ "conn.commit" \notin Range(connLog)
        /\ (~lastResult.success \/ raised) => dbCommitted = dbBefore

\* C14: when the k-th statement apply_sql executes raises a database
\* error, the diagnostic it reports is the one verify_sql reports for the
\* same script, policy and error: statement index, primary message,
\* optional context, offending SQL text.
C14_SameDiagnostic ==
    \A k \in 1..MaxStmts :
        lastCall = "apply_sql" /\ DbErrorAt(k) =>
            /\ ~lastResult.success
            /\ lastResult.error =
                 verify_sql(lastScript, allow_dangerous, allow_procedures,
                            lastEnv).result.error

\* C15: during the run of an asset, whatever its context document (the
\* empty one included), converter_node calls the context builder at most
\* once, and not before the first corrective pass.
C15_ContextBuiltOnce ==
    /\ ragCalls <= 1
    /\ ragCalls = 1 => convCalls >= 1

\* C16: no exception raised by a call of the transpilation, review or
\* rewrite service, of the context builder or of the target database leaves
\* a node of the workflow: the run never stops on an exception.
C16_NoExceptionEscapes == ~raised /\ node # "RAISED"

\* C17: in a batch run every pending asset is processed: after an asset's
\* workflow ended, with any status or by an exception, the loop goes on to
\* the next position and never leaves run_migration; the run reaches its
\* summary, and by then every pending asset has an outcome, in list order.
C17_Step ==
    node \in {"END", "RAISED"} =>
        /\ node' = "loop"
        /\ cursor' = cursor + 1
        /\ Len(outcomes') = cursor

C17_EveryAssetProcessed ==
    /\ [][C17_Step]_vars
    /\ [](node # "aborted")
    /\ [](node = "summary" => Len(outcomes) = Len(pending))
    /\ [](node = "transpiler" =>
             cursor \in 1..Len(pending) /\ source_sql = pending[cursor])
    /\ <>(node = "summary")

C17_Witness ==
    /\ node = "summary"
    /\ Len(pending) = MaxAssets
    /\ Len(outcomes) = MaxAssets
    /\ outcomes[1] = "RAISED"
    /\ outcomes[MaxAssets] = "DONE"
    /\ done >= 1 /\ failed >= 1

HasDefinition(r) ==
    \/ r.obj_type \in {"TABLE", "VIEW"} /\ r.ddl_script # NULL
    \/ r.obj_type \in {"PROCEDURE", "FUNCTION", "PACKAGE"} /\ r.source_code # NULL

DefinitionShown(r) ==
    IF r.obj_type \in {"TABLE", "VIEW"} THEN r.ddl_script ELSE r.source_code

Marker(r) ==
    (IF r.obj_type \in {"TABLE", "VIEW"} THEN "-- Table/View: " ELSE "-- Source Code: ")
    \o r.schema_name \o "." \o r.obj_name

\* tables, then views, then every other kind
KindOrder(r) == IF r.obj_type = "TABLE" THEN 0 ELSE IF r.obj_type = "VIEW" THEN 1 ELSE 2

\* r1 may come before r2: by kind, then schema, then name
MayPrecede(r1, r2) ==
    \/ KindOrder(r1) < KindOrder(r2)
    \/ /\ KindOrder(r1) = KindOrder(r2)
       /\ \/ AlphaIndex(r1.schema_name) < AlphaIndex(r2.schema_name)
          \/ /\ r1.schema_name = r2.schema_name
             /\ AlphaIndex(r1.obj_name) <= AlphaIndex(r2.obj_name)

\* the rows the document of a call must show
Expected(call) ==
    {r \in store : /\ r.project_name = Project
                   /\ r.obj_name \in call.referenced_names
                   /\ HasDefinition(r)}

\* the lines of a document between its first two and its last two lines
Body(doc) == SubSeq(doc, 3, Len(doc) - 2)

\* C19: the document of a call the store answered consists of one entry
\* (marker line, stored definition) for each row of the builder's project
\* whose name is referenced and which has a definition to show, and of
\* nothing else; the entries are ordered tables, views, other kinds, and
\* within a kind by schema, then name.  A call returns the empty text only
\* when there is no such row.
C19_ContextListsDefinitions ==
    \A k \in 1..Len(ctxOut) :
        ~ctxOut[k].store_error =>
            LET doc == ctxOut[k].context
                expected == Expected(ctxOut[k])
                body == Body(doc)
            IN IF doc = <<>> THEN expected = {}
               ELSE /\ Len(body) = 2 * Cardinality(expected)
                    /\ \A r \in expected :
                         \E i \in 1..Cardinality(expected) :
                            /\ body[2 * i - 1] = Marker(r)
                            /\ body[2 * i] = DefinitionShown(r)
                    /\ \A r1, r2 \in expected :
                         \A i, j \in 1..Cardinality(expected) :
                            /\ i < j
                            /\ body[2 * i] = DefinitionShown(r1)
                            /\ body[2 * j] = DefinitionShown(r2)
                            => MayPrecede(r1, r2)

C19_Witness ==
    /\ Len(ctxOut) >= 1
    /\ ~ctxOut[1].store_error
    /\ Len(Body(ctxOut[1].context)) = 4
    /\ \E r1, r2 \in Expected(ctxOut[1]) :
         /\ r1.obj_type = "TABLE" /\ r1.schema_name = "PUBLIC"
         /\ r2.obj_type = "VIEW" /\ r2.schema_name = "HR"

\* scope i of q and its ancestors
RECURSIVE SelfAndAncestors(_, _)
SelfAndAncestors(q, i) ==
    IF i = 0 THEN {} ELSE {i} \cup SelfAndAncestors(q, q.scopes[i].parent)

\* some reference to table name nm (case-normalized) sits in a scope where
\* neither the scope nor any ancestor defines a CTE of that name
UnshadowedReference(q, nm) ==
    \E i \in 1..Len(q.scopes) :
        /\ \E t \in q.scopes[i].tables : Upper(t) = nm
        /\ \A j \in SelfAndAncestors(q, i) :
              \A c \in q.scopes[j].ctes : Upper(c) # nm

\* C20: for a query (a statement with a scope tree), _extract_references
\* returns a name exactly when some table reference to it is not shadowed by
\* a CTE of the same case-normalized name in the reference's scope or an
\* ancestor scope, or a function of that name is invoked; invoked functions
\* are returned whatever the CTEs are called.
C20_ShadowedTablesExcluded ==
    node = "returned" /\ query.scoped =>
        /\ \A nm \in {"EMP", "DEPT"} :
             nm \in refs <=>
                \/ UnshadowedReference(query, nm)
                \/ \E f \in query.funcs : Upper(f) = nm
        /\ refs \subseteq {"EMP", "DEPT"}
        /\ \A f \in query.funcs : Upper(f) \in refs

C20_Witness ==
    /\ node = "returned"
    /\ query.scoped
    /\ Len(query.scopes) = 3
    /\ query.scopes[2].parent = 1 /\ query.scopes[3].parent = 2
    /\ query.scopes[1].ctes = {"Emp"}
    /\ query.scopes[3].tables = {"emp", "dept"}
    /\ query.scopes[1].tables = {} /\ query.scopes[2].tables = {}
    /\ query.funcs = {}
    /\ refs = {"DEPT"}

\* the analysis of the script met a failure: sqlglot.parse raised, or the
\* analysis of one of its statements did
AnalysisFailed == ParseFails(script) \/ NONE \in Range(script)

\* C21: a get_context call returns (nothing is raised to the caller), and
\* whenever parsing or the analysis of a statement failed, at the first
\* statement or at a later one, _extract_references returned no names and
\* no schemas and the context is empty.
C21_FailureYieldsEmpty ==
    node = "returned" =>
        /\ ~raised
        /\ AnalysisFailed =>
             /\ refs = {}
             /\ schema_refs = {}
             /\ ctxOut[1].context = <<>>

\* number of parts of msg that are the notice
RECURSIVE Occurrences(_, _)
Occurrences(msg, part) ==
    IF msg = <<>> THEN 0
    ELSE (IF Head(msg) = part THEN 1 ELSE 0) + Occurrences(Tail(msg), part)

\* what the claim lets fail_node make of the last specific error
ComposedMessage(specific, notice) ==
    IF specific = <<>> THEN <<notice>>
    ELSE IF Occurrences(specific, notice) = 0 THEN specific \o <<notice>>
    ELSE specific

\* C22 as stated: the message fail_node stores contains the max-retries
\* notice exactly once.
C22_Original ==
    [][node = "fail" =>
         Occurrences(error_msg', MaxRetryMsg(max_retries)) = 1]_vars

\* C22 as amended: the message fail_node stores is the last specific error
\* followed by the notice when that error does not contain the notice, the
\* unchanged error when it does, and the notice alone when there is no
\* specific error; so it contains the notice at least once, and exactly
\* once unless the specific error already contained it several times.
C22_NoticeNotDuplicated ==
    [][node = "fail" =>
         LET notice == MaxRetryMsg(max_retries)
         IN /\ status' = "FAILED"
            /\ error_msg' = ComposedMessage(error_msg, notice)
            /\ Occurrences(error_msg', notice) >= 1
            /\ Occurrences(error_msg, notice) <= 1
                 => Occurrences(error_msg', notice) = 1]_vars

C22_Witness ==
    /\ node = "END"
    /\ status = "FAILED"
    /\ max_retries = MaxRetriesBound
    /\ error_msg = <<MaxRetryMsg(max_retries), MaxRetryMsg(max_retries)>>

\* C23: a rewrite call that returns adds 1 to retry_count and is followed
\* by the retry check (review below the budget, fail otherwise) whether or
\* not its output can be re-parsed; the new target_sql is the stripped raw
\* text when sqlglot.parse fails on it, and the statements of the parsed
\* text in serialized form when it succeeds.
C23_Step ==
    ~transpileFailed /\ node = "converter" /\ node' # "RAISED" =>
        LET cleaned_sql == lastRewrite'.cleaned_sql
        IN /\ retry_count' = retry_count + 1
           /\ node' = IF retry_count' < max_retries THEN "reviewer" ELSE "fail"
           /\ ParseFails(cleaned_sql) => target_sql' = cleaned_sql
           /\ ~ParseFails(cleaned_sql) => target_sql' = SplitStatements(cleaned_sql)

C23_RawTextOnlyWhenUnparseable == [][C23_Step]_vars

----------------------------------------------------------------------------
\* C24: workflows of different assets share no mutable state.  While the
\* runs of two assets are interleaved, every step of the running worker is
\* a step of the workflow on that worker's own state (so each asset goes
\* through the states, and ends in the state, of a run made alone with the
\* same service outcomes) and leaves the waiting run's state, its
\* retry_count, error message, cached context and candidate text included,
\* as it was; when the workers change places each finds its run exactly as
\* it left it.
C24_Step ==
    /\ active' = active => Next /\ parked' = parked
    /\ active' # active => RunState' = parked /\ parked' = RunState

----------------------------------------------------------------------------
\* the category the statement of a given leading keyword and node class is
\* to have
InvokesCode(s) == LeadingKeyword(s) \in {"CALL", "EXEC", "EXECUTE", "DO"}
ChangesSchemaOrData(s) ==
    LeadingKeyword(s) \in {"CREATE", "ALTER", "DROP", "INSERT", "UPDATE",
                           "DELETE", "MERGE"}
IsRawCommand(s) == NodeType(s) = "Command"

CategoryOf(s) ==
    IF InvokesCode(s) THEN "procedure"
    ELSE IF ChangesSchemaOrData(s) \/ IsRawCommand(s) THEN "dangerous"
    ELSE "safe"

\* C25: classification is total and deterministic.  Classifying a statement
\* never raises; each statement classified so far has exactly one category:
\* procedure when it invokes a procedure or code block (also when it is a
\* raw command), dangerous when it is CREATE, ALTER, DROP, INSERT, UPDATE,
\* DELETE, MERGE or another raw command, safe otherwise; and equal
\* statements have equal categories.
C25_ClassificationTotal ==
    /\ node # "RAISED"
    /\ \A i \in 1..Len(classified) :
          /\ classified[i] \in {"safe", "dangerous", "procedure"}
          /\ classified[i] = CategoryOf(script[i])
          /\ \A j \in 1..Len(classified) :
                script[i] = script[j] => classified[i] = classified[j]

----------------------------------------------------------------------------
\* the most recent review was given the text in hand, passed it, and nothing
\* has been rewritten or verified since
JustPassedReview(sql) ==
    /\ lastReview.sql = sql
    /\ IsPass(lastReview.response)
    /\ lastReview.rewrites = convCalls
    /\ lastReview.verifies = verifyCalls

\* C26: a verification is only ever invoked directly after a passing review
\* of the same text, and when a run ends with status DONE its target_sql is
\* exactly the text the most recent review passed and the most recent
\* verify_sql call then succeeded on, with no rewrite in between.
C26_Step ==
    /\ verifyCalls' # verifyCalls =>
          /\ node = "verifier"
          /\ status = "REVIEW_PASS"
          /\ JustPassedReview(target_sql)
          /\ lastScript' = target_sql
          /\ target_sql' = target_sql
    /\ (node' = "END" /\ status' = "DONE") =>
          /\ lastReview'.sql = target_sql'
          /\ IsPass(lastReview'.response)
          /\ lastReview'.rewrites = convCalls'
          /\ lastReview'.verifies + 1 = verifyCalls'
          /\ lastCall' = "verify_sql"
          /\ lastScript' = target_sql'
          /\ lastResult'.success

C26_DoneTextReviewedAndVerified == [][C26_Step]_vars

\* a run that ends DONE on a rewritten text, after a failed verification
C26_Witness ==
    /\ node = "END"
    /\ status = "DONE"
    /\ retry_count >= 1
    /\ verifyCalls >= 2
    /\ target_sql # Transpile(source_sql)

----------------------------------------------------------------------------
\* C27: a run that ends DONE has made retry_count + 1 review calls; a run
\* that ends FAILED (by retry exhaustion, the only way to FAILED) has made
\* retry_count = max_retries review calls, and its target_sql is the output
\* of the last rewrite, after which no review and no verification call was
\* made.
C27_ReviewCount ==
    /\ (node = "END" /\ status = "DONE") => reviewCalls = retry_count + 1
    /\ (node = "END" /\ status = "FAILED") =>
          /\ reviewCalls = retry_count
          /\ retry_count = max_retries
          /\ convCalls = retry_count
          /\ target_sql = NormalizedSql(lastRewrite.cleaned_sql)
          /\ lastRewrite.reviews = reviewCalls
          /\ lastRewrite.verifies = verifyCalls

\* a run that ends FAILED after two rewrites, one of them after a failed
\* verification, on a text the last review never saw
C27_Witness ==
    /\ node = "END"
    /\ status = "FAILED"
    /\ retry_count = 2
    /\ verifyCalls >= 1
    /\ target_sql # lastReview.sql

\* C28: every call of the rewrite service carries the message of the review
\* rejection or verification failure that immediately preceded it in the
\* run, and the candidate text that failure was about; never a message of
\* an earlier cycle or of the transpile step.  (The call carries error_msg
\* and target_sql as they are when converter_node starts.)
C28_Step ==
    convCalls' # convCalls =>
        /\ node = "converter"
        /\ status \in {"REVIEW_FAIL", "VERIFY_FAIL"}
        /\ target_sql = lastReview.sql
        /\ lastReview.rewrites = convCalls
        /\ status = "REVIEW_FAIL" =>
              /\ error_msg = lastReview.response
              /\ ~IsPass(lastReview.response)
              /\ lastReview.verifies = verifyCalls
        /\ status = "VERIFY_FAIL" =>
              /\ error_msg = lastResult.error
              /\ ~lastResult.success
              /\ lastScript = target_sql
              /\ lastReview.verifies + 1 = verifyCalls

C28_RewriteGetsLatestFailure == [][C28_Step]_vars

\* a second rewrite was given the message of a verification failure, which
\* differs from the review response the first rewrite was given, in a run
\* whose transpile step failed
C28_Witness ==
    /\ convCalls = 2
    /\ transpileFailed
    /\ lastRewrite.reviews = 2
    /\ lastRewrite.verifies = 1
    /\ status = "VERIFY_FAIL"
    /\ error_msg = lastResult.error
    /\ error_msg # <<>>
    /\ error_msg # lastReview.response

----------------------------------------------------------------------------
\* C29: at the end of run_migration every pending asset has been counted
\* exactly once, whatever the workflow outcomes and whatever failed while
\* the rendered output was saved, the file mirrored or the log written:
\* done + failed is the number of pending assets.
C29_EachAssetCountedOnce ==
    node = "summary" => done + failed = Len(pending)

----------------------------------------------------------------------------
\* a port run has ended the asset in DONE and stored its rendered output,
\* and the source text is the one that was ported
PortedUnchanged(sa) ==
    \E ro \in rendered_outputs :
        /\ ro.file_path = OutputPath(sa.file_name)
        /\ ro.status = "DONE"
        /\ ro.source_hash = sa.content_hash

\* C30: porting is idempotent on unchanged input.  When a port run starts,
\* an asset that an earlier run ended in DONE, with its rendered output
\* stored, and whose source text has not changed since is not among the
\* pending assets of the run.
C30_Step ==
    run' = run + 1 =>
        \A sa \in source_assets :
            PortedUnchanged(sa) =>
                \A i \in 1..Len(pending_assets') :
                    pending_assets'[i].file_path # sa.file_path

C30_PortIdempotent == [][C30_Step]_vars

====
